---- MODULE Spec2Model ----
(***************************************************************************)
(* Model of the dependency-aware task scheduler of autogen-dsa-solver:     *)
(*   src/examples/complex_scheduling_solution.py  (AdvancedTaskScheduler)  *)
(*   src/examples/professional_solution_example.py                         *)
(*                                        (solve_task_scheduling_problem)  *)
(* One behaviour is one caller: it owns a pool of task objects and invokes *)
(* one of the two entry points on them, step by step.                      *)
(***************************************************************************)
EXTENDS Integers, Sequences, FiniteSets, TLC

\* ------------------------------------------------------------- bounds
\* Largest number of task objects the caller builds.
MaxTasks == 2
\* Largest window end; windows are [start, end) with 0 <= start < end <= MaxTime.
MaxTime == 2
\* Largest window end where the caller invokes the scheduler repeatedly.
RepTime == 1
\* Largest number of invocations on the same tasks.
MaxCalls == 2
\* Largest number of invocations on varying task lists.
ReuseCalls == 3
\* Number of tasks, and largest window end, of the four-task inputs.
FourTasks == 4
FourTime == 3
\* Malformed inputs (ids may repeat, dependencies may name the id MalTasks + 1
\* that no task has, windows may be empty or reversed): at most MalTasks tasks
\* with windows within [0, MalTime].
MalTasks == 2
MalTime == 1
\* Arbitrary arguments of solve_task_scheduling_problem: at most AnyTasks
\* tasks, starts and ends within [0, AnyTime].
AnyTasks == 2
AnyTime == 1
\* Dependency lists with repeated entries and ids of no task: at most
\* TopoTasks tasks.
TopoTasks == 2

\* ------------------------------------------------ Python values
\* Python's None for assigned_worker / actual_start (Task.__init__).
None == -1
\* float('inf'), larger than every time of the model; Inf + d = Inf.
Inf == 1000000

Max(a, b) == IF a >= b THEN a ELSE b

\* Python's a + b on numbers that may be float('inf').
Plus(a, b) == IF a = Inf \/ b = Inf THEN Inf ELSE a + b

\* Python's tuple order on pairs (a, b) < (c, d).
\* Mutant of TupleLt: the tuples are compared by their second component only.
TupleLtBySecond(x, y) == x[2] < y[2]

TupleLt(x, y) == x[1] < y[1] \/ (x[1] = y[1] /\ x[2] < y[2])

\* ---------------------------------------- dict (insertion ordered)
\* A dict is the sequence of its <<key, value>> items in insertion order.
DictHas(d, k) == \E i \in 1..Len(d) : d[i][1] = k

DictGet(d, k) == d[CHOOSE i \in 1..Len(d) : d[i][1] = k][2]

\* defaultdict's d[k] read: the default when the key is missing.
DictGetDefault(d, k, dflt) == IF DictHas(d, k) THEN DictGet(d, k) ELSE dflt

\* Mutant of DictSet: the item is added even when the key is there already.
DictSetAppend(d, k, v) == Append(d, <<k, v>>)

\* d[k] = v: an existing key keeps its position.
DictSet(d, k, v) ==
    IF DictHas(d, k)
    THEN [i \in 1..Len(d) |-> IF d[i][1] = k THEN <<k, v>> ELSE d[i]]
    ELSE Append(d, <<k, v>>)

\* ------------------------------------------------------------- heapq
\* heapq._siftdown(heap, startpos, pos), positions 0-based as in Python.
RECURSIVE SiftDownLoop(_, _, _, _)
SiftDownLoop(heap, startpos, pos, newitem) ==
    IF pos > startpos
    THEN LET parentpos == (pos - 1) \div 2
             parent == heap[parentpos + 1]
         IN  IF TupleLt(newitem, parent)
             THEN SiftDownLoop([heap EXCEPT ![pos + 1] = parent],
                               startpos, parentpos, newitem)
             ELSE [heap EXCEPT ![pos + 1] = newitem]
    ELSE [heap EXCEPT ![pos + 1] = newitem]

siftdown(heap, startpos, pos) == SiftDownLoop(heap, startpos, pos, heap[pos + 1])

\* heapq._siftup(heap, pos): bubble the smaller child up to a leaf, then
\* sift the displaced item down from there.
RECURSIVE SiftUpLoop(_, _, _, _)
SiftUpLoop(heap, pos, childpos, newitem) ==
    IF childpos < Len(heap)
    THEN LET rightpos == childpos + 1
             c == IF rightpos < Len(heap)
                     /\ ~TupleLt(heap[childpos + 1], heap[rightpos + 1])
                  THEN rightpos ELSE childpos
         IN  SiftUpLoop([heap EXCEPT ![pos + 1] = heap[c + 1]], c, 2 * c + 1, newitem)
    ELSE <<[heap EXCEPT ![pos + 1] = newitem], pos>>

siftup(heap, pos) ==
    LET r == SiftUpLoop(heap, pos, 2 * pos + 1, heap[pos + 1])
    IN  siftdown(r[1], pos, r[2])

\* heapq.heappush(heap, item)
\* Mutant of heappush: the item is appended and not sifted.
heappushAppend(heap, item) == Append(heap, item)

heappush(heap, item) == siftdown(Append(heap, item), 0, Len(heap))

\* heapq.heappop(heap): <<smallest item, remaining heap>>; heap is non-empty.
heappop(heap) ==
    LET lastelt == heap[Len(heap)]
        rest == SubSeq(heap, 1, Len(heap) - 1)
    IN  IF rest = <<>>
        THEN <<lastelt, rest>>
        ELSE <<rest[1], siftup([rest EXCEPT ![1] = lastelt], 0)>>

\* heapq.heapify(x): for i in reversed(range(n // 2)): _siftup(x, i)
RECURSIVE HeapifyLoop(_, _)
HeapifyLoop(x, i) == IF i < 0 THEN x ELSE HeapifyLoop(siftup(x, i), i - 1)

heapify(x) == HeapifyLoop(x, (Len(x) \div 2) - 1)

\* ------------------------------------------------------------- state
VARIABLES
    impl,               \* entry point the caller uses: "adv" or "pro"
    objs,               \* the caller-owned task objects (Task instances / dicts)
    given,              \* the caller's tasks as they were built, before any call
    tasks,              \* the call's argument: references (indices) into objs
    tasks_type,         \* type(tasks).__name__ of the call's argument
    pc,                 \* position of the running call
    i,                  \* index of the for-loop the call is in
    calls,              \* number of invocations entered so far
    fresh,              \* the adv scheduler has run no call before this one
    log,                \* <<arguments, fresh, result>> of every finished call
    self_tasks,         \* AdvancedTaskScheduler.tasks: dict id -> Task
    dependency_graph,   \* AdvancedTaskScheduler.dependency_graph
    reverse_deps,       \* AdvancedTaskScheduler.reverse_deps
    task_map,           \* schedule_tasks_optimally: task_map
    graph,              \* schedule_tasks_optimally: graph
    in_degree,          \* dict id -> remaining prerequisites
    ready_queue,        \* heap of (start, id)
    sorted_tasks,       \* emitted order (ids); task references in
                        \* schedule_without_dependencies
    critical_info,      \* _calculate_critical_path's result
    worker_availability,\* heap of (end_time, worker_id)
    workers,            \* schedule_without_dependencies: workers (end times)
    worker_assignments, \* dict worker_id -> list of tasks
    worker_count,
    result              \* what the call returned

vars == <<impl, objs, given, tasks, tasks_type, pc, i, calls, fresh, log,
          self_tasks, dependency_graph, reverse_deps, task_map, graph, in_degree,
          ready_queue, sorted_tasks, critical_info, worker_availability,
          workers, worker_assignments, worker_count, result>>

\* The AdvancedTaskScheduler instance.
schedulerVars == <<self_tasks, dependency_graph, reverse_deps>>

\* The locals of one call.
localVars == <<task_map, graph, in_degree, ready_queue, sorted_tasks,
               critical_info, worker_availability, workers,
               worker_assignments, worker_count>>

callerVars == <<impl, given, tasks, tasks_type, calls, fresh>>

\* The caller's record of a finished call.
Logged(res) == Append(log, [args |-> tasks, fresh |-> fresh, result |-> res])

NoResult == [kind |-> "none"]

\* solve_task_scheduling_problem's "return None" of its except clauses.
Failure == [kind |-> "failure"]

\* ------------------------------------------------------------- inputs
\* Task(task_id, start_time, end_time, dependencies)
AdvTask(id, s, e, deps) ==
    [id |-> id, start_time |-> s, end_time |-> e, duration |-> e - s,
     dependencies |-> deps, assigned_worker |-> None, actual_start |-> None]

\* {'id': .., 'start': .., 'end': .., 'dependencies': [..]}
ProTask(id, s, e, deps) ==
    [id |-> id, start |-> s, end |-> e, dependencies |-> deps]

MkTask(im, id, s, e, deps) ==
    IF im = "adv" THEN AdvTask(id, s, e, deps) ELSE ProTask(id, s, e, deps)

Windows(T) == {w \in (0..(T - 1)) \X (1..T) : w[1] < w[2]}

RECURSIVE SortedSeq(_)
SortedSeq(S) ==
    IF S = {} THEN <<>>
    ELSE LET m == CHOOSE x \in S : \A y \in S : x <= y
         IN  <<m>> \o SortedSeq(S \ {m})

\* The state a call starts from: fresh locals, the call entered.
EnterCall(im) ==
    /\ pc = IF im = "adv" THEN "add_task" ELSE "validate"
    /\ i = 1
    /\ task_map = <<>> /\ graph = <<>> /\ in_degree = <<>>
    /\ ready_queue = <<>> /\ sorted_tasks = <<>> /\ critical_info = <<>>
    /\ worker_availability = <<>> /\ workers = <<>>
    /\ worker_assignments = <<>> /\ worker_count = 0
    /\ result = NoResult

\* AdvancedTaskScheduler.__init__
NewScheduler ==
    /\ self_tasks = <<>> /\ dependency_graph = <<>> /\ reverse_deps = <<>>

\* The caller has built n tasks with ids 1..n, windows within [0, T] and
\* dependency lists over the ids (cycles and self-dependencies included), and
\* has entered the call with all of them.
InitWith(N, T) ==
    /\ impl \in {"adv", "pro"}
    /\ \E n \in N :
         \E w \in [1..n -> Windows(T)], d \in [1..n -> SUBSET (1..n)] :
            objs = [k \in 1..n |->
                      MkTask(impl, k, w[k][1], w[k][2], SortedSeq(d[k]))]
    /\ given = objs
    /\ tasks = [k \in 1..Len(objs) |-> k]
    /\ tasks_type = "list"
    /\ calls = 1 /\ fresh = TRUE /\ log = <<>>
    /\ NewScheduler
    /\ EnterCall(impl)

\* As InitWith, with exactly n tasks, each with at most one dependency, on a
\* task of smaller id (an acyclic input).
InitForest(n, T) ==
    /\ impl \in {"adv", "pro"}
    /\ \E w \in [1..n -> Windows(T)], d \in [1..n -> 0..(n - 1)] :
          /\ \A k \in 1..n : d[k] < k
          /\ objs = [k \in 1..n |->
                       MkTask(impl, k, w[k][1], w[k][2],
                              IF d[k] = 0 THEN <<>> ELSE <<d[k]>>)]
    /\ given = objs
    /\ tasks = [k \in 1..Len(objs) |-> k]
    /\ tasks_type = "list"
    /\ calls = 1 /\ fresh = TRUE /\ log = <<>>
    /\ NewScheduler
    /\ EnterCall(impl)

\* Every non-empty sublist (order kept) of the references 1..n.
RECURSIVE SubListOf(_, _, _)
SubListOf(S, k, n) ==
    IF k > n THEN <<>>
    ELSE (IF k \in S THEN <<k>> ELSE <<>>) \o SubListOf(S, k + 1, n)

SubLists(n) == {SubListOf(S, 1, n) : S \in (SUBSET (1..n)) \ {{}}}

\* As InitWith, the first call taking any non-empty sublist of the tasks.
InitSubList(N, T) ==
    /\ impl \in {"adv", "pro"}
    /\ \E n \in N :
         \E w \in [1..n -> Windows(T)], d \in [1..n -> SUBSET (1..n)] :
            objs = [k \in 1..n |->
                      MkTask(impl, k, w[k][1], w[k][2], SortedSeq(d[k]))]
    /\ given = objs
    /\ tasks \in SubLists(Len(objs))
    /\ tasks_type = "list"
    /\ calls = 1 /\ fresh = TRUE /\ log = <<>>
    /\ NewScheduler
    /\ EnterCall(impl)

Init == InitWith(0..MaxTasks, MaxTime)

\* ------------------------------------- AdvancedTaskScheduler (adv)
\* Mutant of AppendEdges: an edge already in the graph is not appended again.
RECURSIVE AppendEdgesOnce(_, _, _, _)
AppendEdgesOnce(g, deps, k, id) ==
    IF k > Len(deps) THEN g
    ELSE LET old == DictGetDefault(g, deps[k], <<>>)
         IN  AppendEdgesOnce(IF \E j \in 1..Len(old) : old[j] = id THEN g
                             ELSE DictSet(g, deps[k], Append(old, id)),
                             deps, k + 1, id)

\* for dep in task.dependencies: self.dependency_graph[dep].append(task.id)
RECURSIVE AppendEdges(_, _, _, _)
AppendEdges(g, deps, k, id) ==
    IF k > Len(deps) THEN g
    ELSE AppendEdges(DictSet(g, deps[k],
                             Append(DictGetDefault(g, deps[k], <<>>), id)),
                     deps, k + 1, id)

\* add_task(task), one iteration of find_minimum_workers' first loop. The
\* scheduler keeps the caller's object itself, and appends to the graphs it
\* already holds.
AddTask ==
    /\ impl = "adv" /\ pc = "add_task" /\ i <= Len(tasks)
    /\ LET task == objs[tasks[i]]
       IN  /\ self_tasks' = DictSet(self_tasks, task.id, tasks[i])
           /\ dependency_graph' =
                 AppendEdges(dependency_graph, task.dependencies, 1, task.id)
           /\ reverse_deps' =
                 IF task.dependencies = <<>> THEN reverse_deps
                 ELSE DictSet(reverse_deps, task.id,
                              DictGetDefault(reverse_deps, task.id, <<>>)
                                 \o task.dependencies)
    /\ i' = i + 1
    /\ UNCHANGED <<callerVars, log, objs, pc, localVars, result>>

\* Mutant of SeedReadyQueue: every task is pushed, whatever its in-degree.
RECURSIVE SeedReadyQueueAll(_, _, _, _)
SeedReadyQueueAll(rq, ind, k, starts) ==
    IF k > Len(ind) THEN rq
    ELSE SeedReadyQueueAll(heappush(rq, <<DictGet(starts, ind[k][1]), ind[k][1]>>),
                           ind, k + 1, starts)

\* for task_id, degree in in_degree.items(): if degree == 0: heappush(...)
\* starts is the dict id -> start time of the task registered under the id.
RECURSIVE SeedReadyQueue(_, _, _, _)
SeedReadyQueue(rq, ind, k, starts) ==
    IF k > Len(ind) THEN rq
    ELSE LET pushed == IF ind[k][2] = 0
                       THEN heappush(rq, <<DictGet(starts, ind[k][1]), ind[k][1]>>)
                       ELSE rq
         IN  CHOOSE seeded \in {SeedReadyQueue(q, ind, k + 1, starts) : q \in {pushed}} :
                TRUE

\* Mutant of UpdateDependents: the in-degrees are decremented, and a task that
\* reaches 0 is not pushed.
RECURSIVE UpdateDependentsNoPush(_, _, _, _, _)
UpdateDependentsNoPush(ind, rq, dependents, k, starts) ==
    IF k > Len(dependents) THEN <<ind, rq>>
    ELSE UpdateDependentsNoPush(
            DictSet(ind, dependents[k], DictGetDefault(ind, dependents[k], 0) - 1),
            rq, dependents, k + 1, starts)

\* Mutant of UpdateDependents: the dependent is pushed at every decrement.
RECURSIVE UpdateDependentsPushAlways(_, _, _, _, _)
UpdateDependentsPushAlways(ind, rq, dependents, k, starts) ==
    IF k > Len(dependents) THEN <<ind, rq>>
    ELSE LET dep == dependents[k]
         IN  UpdateDependentsPushAlways(
                DictSet(ind, dep, DictGetDefault(ind, dep, 0) - 1),
                heappush(rq, <<DictGet(starts, dep), dep>>),
                dependents, k + 1, starts)

\* for dependent in graph[current]: in_degree[dependent] -= 1; push it when it
\* reaches 0. Returns <<in_degree, ready_queue>>.
RECURSIVE UpdateDependents(_, _, _, _, _)
UpdateDependents(ind, rq, dependents, k, starts) ==
    IF k > Len(dependents) THEN <<ind, rq>>
    ELSE LET dep == dependents[k]
             deg == DictGetDefault(ind, dep, 0) - 1
         IN  UpdateDependents(DictSet(ind, dep, deg),
                              IF deg = 0
                              THEN heappush(rq, <<DictGet(starts, dep), dep>>)
                              ELSE rq,
                              dependents, k + 1, starts)

\* id -> start_time of self.tasks[id]
AdvStarts ==
    [k \in 1..Len(self_tasks) |->
        <<self_tasks[k][1], objs[self_tasks[k][2]].start_time>>]

\* _get_topologically_sorted_tasks up to its while loop: the in-degrees of
\* every registered task and the seeded ready queue.
AdvInDegree ==
    [k \in 1..Len(self_tasks) |->
        <<self_tasks[k][1],
          Len(DictGetDefault(reverse_deps, self_tasks[k][1], <<>>))>>]

AdvTopoInit ==
    /\ impl = "adv" /\ pc = "add_task" /\ i > Len(tasks)
    /\ in_degree' = AdvInDegree
    /\ ready_queue' = SeedReadyQueue(<<>>, AdvInDegree, 1, AdvStarts)
    /\ sorted_tasks' = <<>>
    /\ pc' = "topo"
    /\ UNCHANGED <<callerVars, log, objs, i, schedulerVars, task_map, graph,
                   critical_info, worker_availability, workers,
                   worker_assignments, worker_count, result>>

\* One iteration of the while loop of _get_topologically_sorted_tasks.
AdvTopoStep ==
    /\ impl = "adv" /\ pc = "topo" /\ ready_queue # <<>>
    /\ LET popped == heappop(ready_queue)
           current_task == popped[1][2]
           upd == UpdateDependents(in_degree, popped[2],
                     DictGetDefault(dependency_graph, current_task, <<>>),
                     1, AdvStarts)
       IN  /\ sorted_tasks' = Append(sorted_tasks, current_task)
           /\ in_degree' = upd[1]
           /\ ready_queue' = upd[2]
    /\ UNCHANGED <<callerVars, log, objs, pc, i, schedulerVars, task_map, graph,
                   critical_info, worker_availability, workers,
                   worker_assignments, worker_count, result>>

\* The forward pass of _calculate_critical_path for one task, given the
\* entries computed so far: a dependency not yet in critical_info is skipped.
RECURSIVE DepsEarliest(_, _, _, _)
DepsEarliest(es, deps, k, info) ==
    IF k > Len(deps) THEN es
    ELSE DepsEarliest(IF DictHas(info, deps[k])
                      THEN Max(es, DictGet(info, deps[k]).earliest_finish)
                      ELSE es,
                      deps, k + 1, info)

\* _calculate_critical_path: the tasks are visited in the order of self.tasks.
RECURSIVE CriticalPathLoop(_, _)
CriticalPathLoop(info, k) ==
    IF k > Len(self_tasks) THEN info
    ELSE LET task == objs[self_tasks[k][2]]
             es == DepsEarliest(task.start_time, task.dependencies, 1, info)
             entered ==
                DictSet(info, self_tasks[k][1],
                        [earliest_start |-> es,
                         earliest_finish |-> es + task.duration,
                         latest_start |-> task.start_time,
                         latest_finish |-> task.end_time,
                         slack |-> task.start_time - es])
         IN  CHOOSE done \in {CriticalPathLoop(info2, k + 1) : info2 \in {entered}} :
                TRUE

\* The while loop has ended: sorted_tasks is returned, the critical path is
\* computed (and not used), and the allocator starts.
AdvCalculateCriticalPath ==
    /\ impl = "adv" /\ pc = "topo" /\ ready_queue = <<>>
    /\ critical_info' = CriticalPathLoop(<<>>, 1)
    /\ worker_availability' = <<>>
    /\ worker_assignments' = <<>>
    /\ worker_count' = 0
    /\ pc' = "alloc" /\ i' = 1
    /\ UNCHANGED <<callerVars, log, objs, schedulerVars, task_map, graph, in_degree,
                   ready_queue, sorted_tasks, workers, result>>

\* Mutant of WorkerIsAvailable: the comparison is off by one.
WorkerIsAvailableOffByOne(end_time, start_time) == end_time <= start_time + 1

\* "if end_time <= task.start_time": the worker is free when the task starts.
WorkerIsAvailable(end_time, start_time) == end_time <= start_time

\* Mutant of FirstAvailable: no worker is ever found available.
FirstAvailableNone(wa, start_time) == 0

\* The scan of worker_availability: the first entry, in the heap's list order,
\* that is available; 0 when there is none.
FirstAvailable(wa, start_time) ==
    IF \E j \in 1..Len(wa) : WorkerIsAvailable(wa[j][1], start_time)
    THEN CHOOSE j \in 1..Len(wa) :
            /\ WorkerIsAvailable(wa[j][1], start_time)
            /\ \A h \in 1..(j - 1) : ~WorkerIsAvailable(wa[h][1], start_time)
    ELSE 0

\* Lines 151-160: <<index or 0, earliest_available_time>>. The loop breaks at
\* the first available entry, whether or not it recorded it.
AdvFindWorker(wa, start_time) ==
    LET j == FirstAvailable(wa, start_time)
    IN  IF j # 0 /\ wa[j][1] < Inf THEN <<j, wa[j][1]>> ELSE <<0, Inf>>

\* One iteration of the for loop of _allocate_resources_optimally.
AdvAllocStep ==
    /\ impl = "adv" /\ pc = "alloc" /\ i <= Len(sorted_tasks)
    /\ LET ref == DictGet(self_tasks, sorted_tasks[i])
           task == objs[ref]
           found == AdvFindWorker(worker_availability, task.start_time)
           idx == found[1]
           earliest_available_time == found[2]
           worker_id == IF idx = 0 THEN worker_count + 1
                        ELSE worker_availability[idx][2]
       IN  /\ worker_count' = IF idx = 0 THEN worker_count + 1 ELSE worker_count
           /\ worker_availability' =
                 IF idx = 0
                 THEN heappush(worker_availability, <<task.end_time, worker_id>>)
                 ELSE heapify([worker_availability EXCEPT
                                  ![idx] = <<task.end_time, worker_id>>])
           /\ objs' = [objs EXCEPT
                         ![ref].assigned_worker = worker_id,
                         ![ref].actual_start =
                             Max(task.start_time, earliest_available_time)]
           /\ worker_assignments' =
                 DictSet(worker_assignments, worker_id,
                         Append(DictGetDefault(worker_assignments, worker_id, <<>>),
                                ref))
    /\ i' = i + 1
    /\ UNCHANGED <<callerVars, log, pc, schedulerVars, task_map, graph, in_degree,
                   ready_queue, sorted_tasks, critical_info, workers, result>>

\* return worker_count, dict(worker_assignments)
AdvReturn ==
    /\ impl = "adv" /\ pc = "alloc" /\ i > Len(sorted_tasks)
    /\ result' = [kind |-> "schedule", min_workers |-> worker_count,
                  schedule |-> worker_assignments]
    /\ log' = Logged(result')
    /\ pc' = "done"
    /\ UNCHANGED <<callerVars, objs, i, schedulerVars, localVars>>

\* --------------------------- solve_task_scheduling_problem (pro)
\* The run-time types validate_task_input tests. A TLA+ value carries no type,
\* so an object of another type than the code expects is written as follows:
\* a task that is not a dict is the record NotADict; a value that is not an
\* int is None; a dict whose 'dependencies' is not a list carries the key
\* "dependencies_type" with the name of the type it has.
NotADict == [py_type |-> "str"]

\* isinstance(task, dict)
IsDict(task) == "py_type" \notin DOMAIN task

\* isinstance(v, int)
IsInt(v) == v # None

\* isinstance(task['dependencies'], list)
DependenciesIsList(task) == "dependencies_type" \notin DOMAIN task

required_fields == <<"id", "start", "end", "dependencies">>

\* validate_task_input's checks on one task (lines 95-118), in the code's
\* order: the class of the exception the first failing check raises, "none"
\* when every check passes.
TaskError(task) ==
    IF ~IsDict(task) THEN "TypeError"
    ELSE IF \E f \in 1..Len(required_fields) : required_fields[f] \notin DOMAIN task
         THEN "KeyError"
    ELSE IF ~IsInt(task.id) \/ task.id < 0 THEN "ValueError"
    ELSE IF ~IsInt(task.start) \/ task.start < 0 THEN "ValueError"
    ELSE IF ~IsInt(task.end) \/ task.end <= task.start THEN "ValueError"
    ELSE IF ~DependenciesIsList(task) THEN "TypeError"
    ELSE IF \E k \in 1..Len(task.dependencies) : ~IsInt(task.dependencies[k])
         THEN "TypeError"
    ELSE "none"

TaskIsValid(task) == TaskError(task) = "none"

\* Lines 40-47: the class of the exception the input validation raises, "none"
\* when it raises nothing. validate_task_input stops at the first invalid
\* task.
ValidationError ==
    IF tasks_type = "NoneType" THEN "ValueError"
    ELSE IF tasks_type # "list" THEN "TypeError"
    ELSE IF Len(tasks) = 0 THEN "ValueError"
    ELSE IF \A k \in 1..Len(tasks) : TaskIsValid(objs[tasks[k]]) THEN "none"
    ELSE TaskError(objs[tasks[CHOOSE k \in 1..Len(tasks) :
                                  /\ ~TaskIsValid(objs[tasks[k]])
                                  /\ \A j \in 1..(k - 1) : TaskIsValid(objs[tasks[j]])]])

\* The classes the except clauses of solve_task_scheduling_problem name (lines
\* 60-75); 'except Exception' catches every class raised here.
except_clauses == <<"ValueError", "TypeError", "KeyError", "Exception">>

\* Mutant of Caught: only the 'except ValueError' clause is there.
CaughtValueErrorOnly(exc) == exc = "ValueError"

\* Mutant of Caught: the 'except ValueError' and 'except Exception' clauses
\* are missing.
CaughtNoValueError(exc) == exc \in {"TypeError", "KeyError"}

Caught(exc) ==
    \E c \in 1..Len(except_clauses) :
        except_clauses[c] = exc \/ except_clauses[c] = "Exception"

\* What the call delivers when exc is raised inside the try block: None from
\* an except clause; an exception no clause catches would reach the caller.
Raise(exc) ==
    IF Caught(exc) THEN Failure ELSE [kind |-> "raised", exception |-> exc]

Validate ==
    /\ impl = "pro" /\ pc = "validate"
    /\ IF ValidationError # "none"
       THEN /\ result' = Raise(ValidationError)
            /\ log' = Logged(result')
            /\ pc' = "done"
       ELSE /\ pc' = "edge"
            /\ UNCHANGED <<result, log>>
    /\ UNCHANGED <<callerVars, objs, i, schedulerVars, localVars>>

\* Mutant of MaxOfEmpty: building the returned dict raises on every input.
MaxAlwaysRaises == TRUE

\* max() of an empty sequence raises ValueError: the generator of
\* max(task['end'] for task in tasks) yields nothing when tasks is empty.
MaxOfEmpty == Len(tasks) = 0

\* max(task['end'] for task in tasks)
TotalTime ==
    CHOOSE m \in {objs[tasks[k]].end : k \in 1..Len(tasks)} :
        \A k \in 1..Len(tasks) : objs[tasks[k]].end <= m

\* Mutant of SortedByStart: the tasks are left in the caller's order.
SortedByStartUnsorted(refs) == refs

\* sorted(tasks, key=lambda t: t['start']): stable, so the first of the
\* smallest remaining starts comes next.
RECURSIVE SortedByStart(_)
SortedByStart(refs) ==
    IF refs = <<>> THEN <<>>
    ELSE LET k == CHOOSE a \in 1..Len(refs) :
                    /\ \A b \in 1..Len(refs) : objs[refs[a]].start <= objs[refs[b]].start
                    /\ \A b \in 1..(a - 1) : objs[refs[b]].start # objs[refs[a]].start
         IN  <<refs[k]>> \o
             SortedByStart(SubSeq(refs, 1, k - 1) \o SubSeq(refs, k + 1, Len(refs)))

\* handle_edge_cases: a single task is answered at once, a task list without
\* dependencies goes to schedule_without_dependencies, the rest to
\* schedule_tasks_optimally.
HandleEdgeCases ==
    /\ impl = "pro" /\ pc = "edge"
    /\ IF Len(tasks) = 1
       THEN /\ result' = [kind |-> "schedule", min_workers |-> 1,
                          schedule |-> << <<1, <<tasks[1]>> >> >>,
                          total_time |-> objs[tasks[1]].end - objs[tasks[1]].start]
            /\ log' = Logged(result')
            /\ pc' = "done"
            /\ UNCHANGED <<sorted_tasks, workers, worker_assignments, worker_count>>
       ELSE IF \A k \in 1..Len(tasks) : Len(objs[tasks[k]].dependencies) = 0
       THEN /\ sorted_tasks' = SortedByStart(tasks)
            /\ workers' = <<>>
            /\ worker_assignments' = <<>>
            /\ worker_count' = 0
            /\ pc' = "swd"
            /\ UNCHANGED <<result, log>>
       ELSE /\ pc' = "sto"
            /\ UNCHANGED <<result, log, sorted_tasks, workers,
                           worker_assignments, worker_count>>
    /\ i' = 1
    /\ UNCHANGED <<callerVars, objs, schedulerVars, task_map, graph, in_degree,
                   ready_queue, critical_info, worker_availability>>

\* Mutant of SwdFirstAvailable: no worker is ever found available.
SwdFirstAvailableNone(ws, start) == 0

\* The scan of workers in schedule_without_dependencies: the first worker, in
\* list order, whose end time is <= the task's start; 0 when there is none.
SwdFirstAvailable(ws, start) ==
    IF \E j \in 1..Len(ws) : ws[j] <= start
    THEN CHOOSE j \in 1..Len(ws) :
            ws[j] <= start /\ \A h \in 1..(j - 1) : ~(ws[h] <= start)
    ELSE 0

\* One iteration of the for loop of schedule_without_dependencies.
SwdStep ==
    /\ impl = "pro" /\ pc = "swd" /\ i <= Len(sorted_tasks)
    /\ LET ref == sorted_tasks[i]
           task == objs[ref]
           j == SwdFirstAvailable(workers, task.start)
       IN  IF j # 0
           THEN /\ workers' = [workers EXCEPT ![j] = task.end]
                /\ worker_assignments' =
                      DictSet(worker_assignments, j,
                              Append(DictGetDefault(worker_assignments, j, <<>>), ref))
                /\ UNCHANGED worker_count
           ELSE /\ worker_count' = worker_count + 1
                /\ workers' = Append(workers, task.end)
                /\ worker_assignments' =
                      DictSet(worker_assignments, worker_count + 1, <<ref>>)
    /\ i' = i + 1
    /\ UNCHANGED <<callerVars, log, objs, pc, schedulerVars, task_map, graph,
                   in_degree, ready_queue, sorted_tasks, critical_info,
                   worker_availability, result>>

\* schedule_without_dependencies' return, handed on by handle_edge_cases and
\* solve_task_scheduling_problem.
SwdReturn ==
    /\ impl = "pro" /\ pc = "swd" /\ i > Len(sorted_tasks)
    /\ result' = IF MaxOfEmpty THEN Raise("ValueError")
                  ELSE [kind |-> "schedule", min_workers |-> Len(workers),
                        schedule |-> worker_assignments, total_time |-> TotalTime]
    /\ log' = Logged(result')
    /\ pc' = "done"
    /\ UNCHANGED <<callerVars, objs, i, schedulerVars, localVars>>

\* task_map = {task['id']: task for task in tasks}
\* (each iteration's dict is bound as a value before the next iteration)
RECURSIVE BuildTaskMap(_, _)
BuildTaskMap(m, k) ==
    IF k > Len(tasks) THEN m
    ELSE CHOOSE built \in {BuildTaskMap(m2, k + 1) :
                              m2 \in {DictSet(m, objs[tasks[k]].id, tasks[k])}} : TRUE

\* Lines 206-209: <<in_degree, graph>>
\* (each iteration's dicts are bound as values before the next iteration)
RECURSIVE BuildGraph(_, _, _)
BuildGraph(ind, g, k) ==
    IF k > Len(tasks) THEN <<ind, g>>
    ELSE LET task == objs[tasks[k]]
         IN  CHOOSE built \in {BuildGraph(ind2, g2, k + 1) :
                    ind2 \in {DictSet(ind, task.id, Len(task.dependencies))},
                    g2 \in {AppendEdges(g, task.dependencies, 1, task.id)}} : TRUE

\* id -> task_map[id]['start']
ProStarts(m) == [k \in 1..Len(m) |-> <<m[k][1], objs[m[k][2]].start>>]

\* schedule_tasks_optimally up to its while loop: the graph, the in-degrees and
\* the seeded ready queue.
ProTopoInit ==
    /\ impl = "pro" /\ pc = "sto"
    /\ \E m \in {BuildTaskMap(<<>>, 1)}, built \in {BuildGraph(<<>>, <<>>, 1)} :
           /\ task_map' = m
           /\ in_degree' = built[1]
           /\ graph' = built[2]
           /\ ready_queue' = SeedReadyQueue(<<>>, built[1], 1, ProStarts(m))
    /\ sorted_tasks' = <<>>
    /\ pc' = "pro_topo"
    /\ UNCHANGED <<callerVars, log, objs, i, schedulerVars, critical_info,
                   worker_availability, workers, worker_assignments,
                   worker_count, result>>

\* One iteration of the while loop of schedule_tasks_optimally.
ProTopoStep ==
    /\ impl = "pro" /\ pc = "pro_topo" /\ ready_queue # <<>>
    /\ LET popped == heappop(ready_queue)
           current_task_id == popped[1][2]
           upd == UpdateDependents(in_degree, popped[2],
                     DictGetDefault(graph, current_task_id, <<>>),
                     1, ProStarts(task_map))
       IN  /\ sorted_tasks' = Append(sorted_tasks, current_task_id)
           /\ in_degree' = upd[1]
           /\ ready_queue' = upd[2]
    /\ UNCHANGED <<callerVars, log, objs, pc, i, schedulerVars, task_map, graph,
                   critical_info, worker_availability, workers,
                   worker_assignments, worker_count, result>>

\* Lines 228-235: a short order raises ValueError("Circular dependencies
\* detected"), which the caller turns into None; otherwise allocation starts.
ProCheckCircular ==
    /\ impl = "pro" /\ pc = "pro_topo" /\ ready_queue = <<>>
    /\ IF Len(sorted_tasks) # Len(tasks)
       THEN /\ result' = Raise("ValueError")
            /\ log' = Logged(result')
            /\ pc' = "done"
       ELSE /\ pc' = "pro_alloc"
            /\ UNCHANGED <<result, log>>
    /\ worker_availability' = <<>>
    /\ worker_assignments' = <<>>
    /\ worker_count' = 0
    /\ i' = 1
    /\ UNCHANGED <<callerVars, objs, schedulerVars, task_map, graph, in_degree,
                   ready_queue, sorted_tasks, critical_info, workers>>

\* One iteration of the allocation loop of schedule_tasks_optimally; the
\* task dict gains the key 'assigned_worker'.
ProAllocStep ==
    /\ impl = "pro" /\ pc = "pro_alloc" /\ i <= Len(sorted_tasks)
    /\ LET ref == DictGet(task_map, sorted_tasks[i])
           task == objs[ref]
           idx == FirstAvailable(worker_availability, task.start)
           worker_id == IF idx = 0 THEN worker_count + 1
                        ELSE worker_availability[idx][2]
       IN  /\ worker_count' = IF idx = 0 THEN worker_count + 1 ELSE worker_count
           /\ worker_availability' =
                 IF idx = 0
                 THEN heappush(worker_availability, <<task.end, worker_id>>)
                 ELSE heapify([worker_availability EXCEPT
                                  ![idx] = <<task.end, worker_id>>])
           /\ objs' = [objs EXCEPT
                         ![ref] = ("assigned_worker" :> worker_id) @@ task]
           /\ worker_assignments' =
                 DictSet(worker_assignments, worker_id,
                         Append(DictGetDefault(worker_assignments, worker_id, <<>>),
                                ref))
    /\ i' = i + 1
    /\ UNCHANGED <<callerVars, log, pc, schedulerVars, task_map, graph, in_degree,
                   ready_queue, sorted_tasks, critical_info, workers, result>>

\* schedule_tasks_optimally's return
ProReturn ==
    /\ impl = "pro" /\ pc = "pro_alloc" /\ i > Len(sorted_tasks)
    /\ result' = IF MaxOfEmpty THEN Raise("ValueError")
                  ELSE [kind |-> "schedule", min_workers |-> worker_count,
                        schedule |-> worker_assignments, total_time |-> TotalTime,
                        task_order |-> sorted_tasks]
    /\ log' = Logged(result')
    /\ pc' = "done"
    /\ UNCHANGED <<callerVars, objs, i, schedulerVars, localVars>>

\* ------------------------------------------------------ specification
Next ==
    \/ AddTask \/ AdvTopoInit \/ AdvTopoStep \/ AdvCalculateCriticalPath
    \/ AdvAllocStep \/ AdvReturn
    \/ Validate \/ HandleEdgeCases \/ SwdStep \/ SwdReturn
    \/ ProTopoInit \/ ProTopoStep \/ ProCheckCircular \/ ProAllocStep
    \/ ProReturn

Spec == Init /\ [][Next]_vars

\* ------------------------------------------------- repeated invocations
\* The caller enters a further call: fresh locals, nothing returned yet.
StartCall ==
    /\ pc' = IF impl = "adv" THEN "add_task" ELSE "validate"
    /\ i' = 1
    /\ task_map' = <<>> /\ graph' = <<>> /\ in_degree' = <<>>
    /\ ready_queue' = <<>> /\ sorted_tasks' = <<>> /\ critical_info' = <<>>
    /\ worker_availability' = <<>> /\ workers' = <<>>
    /\ worker_assignments' = <<>> /\ worker_count' = 0
    /\ result' = NoResult
    /\ calls' = calls + 1

\* The caller invokes the same entry point again with the same task objects:
\* scheduler.find_minimum_workers(tasks) on the same scheduler, or
\* solve_task_scheduling_problem(tasks).
Reinvoke ==
    /\ pc = "done" /\ calls < MaxCalls
    /\ StartCall
    /\ fresh' = (impl = "pro")
    /\ UNCHANGED <<impl, objs, given, tasks, tasks_type, log, schedulerVars>>

\* The caller builds a new AdvancedTaskScheduler and invokes it with the same
\* task objects.
ReinvokeNewScheduler ==
    /\ impl = "adv" /\ pc = "done" /\ calls < MaxCalls
    /\ StartCall
    /\ fresh' = TRUE
    /\ self_tasks' = <<>> /\ dependency_graph' = <<>> /\ reverse_deps' = <<>>
    /\ UNCHANGED <<impl, objs, given, tasks, tasks_type, log>>

NextRepeat == Next \/ Reinvoke \/ ReinvokeNewScheduler

SpecRepeat == InitWith(0..MaxTasks, RepTime) /\ [][NextRepeat]_vars

\* The caller invokes the same entry point again, on the same scheduler, with
\* another list of its task objects.
InvokeOther ==
    /\ pc = "done" /\ calls < ReuseCalls
    /\ StartCall
    /\ fresh' = (impl = "pro")
    /\ tasks' \in SubLists(Len(objs))
    /\ UNCHANGED <<impl, objs, given, tasks_type, log, schedulerVars>>

NextReuse == Next \/ InvokeOther

SpecReuse == InitSubList(1..MaxTasks, RepTime) /\ [][NextReuse]_vars

\* Four-task acyclic inputs.
SpecFour == InitForest(FourTasks, FourTime) /\ [][Next]_vars

\* The caller has built 1..n tasks of the right types whose values are
\* arbitrary: ids from 1..n (so two tasks may share one), any start and end
\* within [0, T], dependency lists over 1..n+1 (n+1 is the id of no task).
InitMalformed(n, T) ==
    /\ impl \in {"adv", "pro"}
    /\ \E m \in 1..n :
         \E ids \in [1..m -> 1..n], s \in [1..m -> 0..T], e \in [1..m -> 0..T],
            d \in [1..m -> SUBSET (1..(n + 1))] :
            objs = [k \in 1..m |->
                      MkTask(impl, ids[k], s[k], e[k], SortedSeq(d[k]))]
    /\ given = objs
    /\ tasks = [k \in 1..Len(objs) |-> k]
    /\ tasks_type = "list"
    /\ calls = 1 /\ fresh = TRUE /\ log = <<>>
    /\ NewScheduler
    /\ EnterCall(impl)

SpecMalformed == InitMalformed(MalTasks, MalTime) /\ [][Next]_vars

\* ------------------------------------- the general path, called directly
\* After solve_task_scheduling_problem returned a schedule, the caller hands
\* the same list to schedule_tasks_optimally(tasks) itself, past the dispatch
\* of handle_edge_cases.
InvokeGeneralPath ==
    /\ impl = "pro" /\ pc = "done" /\ calls = 1 /\ result.kind = "schedule"
    /\ pc' = "sto"
    /\ i' = 1
    /\ task_map' = <<>> /\ graph' = <<>> /\ in_degree' = <<>>
    /\ ready_queue' = <<>> /\ sorted_tasks' = <<>> /\ critical_info' = <<>>
    /\ worker_availability' = <<>> /\ workers' = <<>>
    /\ worker_assignments' = <<>> /\ worker_count' = 0
    /\ result' = NoResult
    /\ calls' = calls + 1
    /\ fresh' = TRUE
    /\ UNCHANGED <<impl, objs, given, tasks, tasks_type, log, schedulerVars>>

NextDispatch == Next \/ InvokeGeneralPath

SpecDispatch == Init /\ [][NextDispatch]_vars

\* ------------------------------------------- arbitrary dependency lists
\* The dependency lists over ids 1..n+1 (n+1 is the id of no task): empty, one
\* entry, one entry twice, two different entries.
DepLists(n) ==
    {<<>>} \cup {<<a>> : a \in 1..(n + 1)} \cup {<<a, a>> : a \in 1..(n + 1)}
           \cup {<<a, b>> : a \in 1..n, b \in 2..(n + 1)}

\* The caller has built 1..n tasks with ids 1, 2, .., a later id starting
\* earlier (task k has the window [m - k, m - k + 1]), and any of these
\* dependency lists, and has entered the call with all of them.
InitTopo(n) ==
    /\ impl \in {"adv", "pro"}
    /\ \E m \in 1..n :
         \E d \in [1..m -> DepLists(n)] :
            objs = [k \in 1..m |-> MkTask(impl, k, m - k, m - k + 1, d[k])]
    /\ given = objs
    /\ tasks = [k \in 1..Len(objs) |-> k]
    /\ tasks_type = "list"
    /\ calls = 1 /\ fresh = TRUE /\ log = <<>>
    /\ NewScheduler
    /\ EnterCall(impl)

\* The call's thread keeps running: a step that can be taken is taken.
SpecTopo == InitTopo(TopoTasks) /\ [][Next]_vars /\ WF_vars(Next)

\* ------------------------- arbitrary arguments of the functional entry
\* A dict without one of its keys.
WithoutField(task, field) == [f \in (DOMAIN task) \ {field} |-> task[f]]

\* The malformed task records: not a dict, a required key missing, a value
\* that is not an int (None) or is negative, 'dependencies' that is not a
\* list (an empty str), a dependency that is not an int.
MalformedRecords(id) ==
    LET task == ProTask(id, 0, 1, <<>>)
    IN  {NotADict}
        \cup {WithoutField(task, required_fields[f]) : f \in 1..Len(required_fields)}
        \cup {[task EXCEPT !.id = v] : v \in {None, -2}}
        \cup {[task EXCEPT !.start = v] : v \in {None, -2}}
        \cup {[task EXCEPT !.end = None]}
        \cup {("dependencies_type" :> "str") @@ task}
        \cup {[task EXCEPT !.dependencies = <<None>>]}

\* The task dicts of the right types with id k: any start and end within
\* [0, T], no dependency or one on an id of 1..n+1 (n+1 is the id of no task).
TypedRecords(k, n, T) ==
    {ProTask(k, s, e, d) : s \in 0..T, e \in 0..T,
                           d \in {<<>>} \cup {<<x>> : x \in 1..(n + 1)}}

\* The lists of m objects, the k-th a task dict with id k or a malformed
\* record.
RECURSIVE AnyLists(_, _, _)
AnyLists(m, n, T) ==
    IF m = 0 THEN {<<>>}
    ELSE {Append(l, r) : l \in AnyLists(m - 1, n, T),
                         r \in TypedRecords(m, n, T) \cup MalformedRecords(m)}

\* The caller calls solve_task_scheduling_problem with None, with an object
\* that is not a list, or with a list of 0..n objects.
InitAny(n, T) ==
    /\ impl = "pro"
    /\ tasks_type \in {"NoneType", "str", "list"}
    /\ IF tasks_type = "list"
       THEN \E m \in 0..n : objs \in AnyLists(m, n, T)
       ELSE objs = <<>>
    /\ given = objs
    /\ tasks = [k \in 1..Len(objs) |-> k]
    /\ calls = 1 /\ fresh = TRUE /\ log = <<>>
    /\ NewScheduler
    /\ EnterCall(impl)

NextPro ==
    \/ Validate \/ HandleEdgeCases \/ SwdStep \/ SwdReturn
    \/ ProTopoInit \/ ProTopoStep \/ ProCheckCircular \/ ProAllocStep
    \/ ProReturn

SpecAny == InitAny(AnyTasks, AnyTime) /\ [][NextPro]_vars


\* ------------------------------------------- reading inputs and results
\* The fields of a task as the caller built it (Task attributes / dict keys).
TaskStart(t) == IF impl = "adv" THEN t.start_time ELSE t.start
TaskEnd(t) == IF impl = "adv" THEN t.end_time ELSE t.end
TaskDeps(t) == {t.dependencies[k] : k \in 1..Len(t.dependencies)}

\* The call's input: the tasks of its argument list, as built.
Args == {tasks[k] : k \in 1..Len(tasks)}
ArgIds == {given[r].id : r \in Args}

\* The input task with a given id (ids are unique in well-formed input).
TaskOfId(id) == given[CHOOSE r \in Args : given[r].id = id]

\* All ids a set of ids depends on, directly or through other tasks.
RECURSIVE DepClosure(_)
DepClosure(S) ==
    LET more == S \cup UNION {TaskDeps(given[r]) : r \in {q \in Args : given[q].id \in S}}
    IN  IF more = S THEN S ELSE DepClosure(more)

\* The dependency relation of the input has a cycle.
Cyclic == \E r \in Args : given[r].id \in DepClosure(TaskDeps(given[r]))

\* Well-formed input: non-empty, unique ids, every dependency id present,
\* windowEnd > windowStart.
WellFormed ==
    /\ tasks # <<>>
    /\ \A a, b \in 1..Len(tasks) : a # b => given[tasks[a]].id # given[tasks[b]].id
    /\ \A r \in Args : TaskDeps(given[r]) \subseteq ArgIds
    /\ \A r \in Args : TaskEnd(given[r]) > TaskStart(given[r])

WellFormedAcyclic == WellFormed /\ ~Cyclic

\* The three ways a typed input can be malformed.
DuplicateIds ==
    \E a, b \in 1..Len(tasks) : a # b /\ given[tasks[a]].id = given[tasks[b]].id

UnknownDependency == \E r \in Args : ~(TaskDeps(given[r]) \subseteq ArgIds)

EmptyWindow == \E r \in Args : TaskEnd(given[r]) <= TaskStart(given[r])

\* The call has returned a schedule.
Returned == pc = "done" /\ result.kind = "schedule"

\* The tasks a list of dict items <<worker, tasks>> assigns, with repetitions.
RECURSIVE AssignedSeq(_, _)
AssignedSeq(sched, k) ==
    IF k > Len(sched) THEN <<>> ELSE sched[k][2] \o AssignedSeq(sched, k + 1)

\* When a scheduled task starts and finishes in the schedule: the Task's
\* actual_start (+ duration) for find_minimum_workers; the dict's window for
\* solve_task_scheduling_problem, whose result carries no other time.
SchedStart(r) == IF impl = "adv" THEN objs[r].actual_start ELSE objs[r].start
SchedFinish(r) ==
    IF impl = "adv" THEN Plus(objs[r].actual_start, objs[r].duration)
    ELSE objs[r].end

\* Half-open intervals [s1, e1) and [s2, e2) share an instant.
Overlap(s1, e1, s2, e2) == s1 < e2 /\ s2 < e1 /\ s1 < e1 /\ s2 < e2

\* Section 4.3 of the specification: the dependency-adjusted earliest start
\* and finish of the input task with a given id (acyclic input).
RECURSIVE EarliestStart(_)
EarliestStart(id) ==
    LET t == TaskOfId(id)
        fin == {EarliestStart(d) + (TaskEnd(TaskOfId(d)) - TaskStart(TaskOfId(d))) :
                   d \in TaskDeps(t)}
    IN  IF fin = {} THEN TaskStart(t)
        ELSE Max(TaskStart(t), CHOOSE m \in fin : \A x \in fin : x <= m)

EarliestFinish(id) ==
    EarliestStart(id) + (TaskEnd(TaskOfId(id)) - TaskStart(TaskOfId(id)))

\* The largest number of intervals of a set of <<id, start, end>> that contain
\* one common instant (it is reached at some interval's start).
MaxOverlap(ivs) ==
    LET depth(t) == Cardinality({v \in ivs : v[2] <= t /\ t < v[3]})
        ds == {depth(v[2]) : v \in ivs} \cup {0}
    IN  CHOOSE m \in ds : \A x \in ds : x <= m

RawWindows == {<<given[r].id, TaskStart(given[r]), TaskEnd(given[r])>> : r \in Args}

AdjustedWindows ==
    {<<given[r].id, EarliestStart(given[r].id), EarliestFinish(given[r].id)>> : r \in Args}

\* Section 4.2 of the specification: the topological order that emits, among
\* the ready tasks, the smallest (windowStart, id).
RECURSIVE ResolverOrder(_)
ResolverOrder(emitted) ==
    LET done == {emitted[k] : k \in 1..Len(emitted)}
        ready == {id \in ArgIds \ done : TaskDeps(TaskOfId(id)) \subseteq done}
    IN  IF ready = {} THEN emitted
        ELSE ResolverOrder(Append(emitted,
                CHOOSE id \in ready : \A o \in ready :
                    o = id \/ TupleLt(<<TaskStart(TaskOfId(id)), id>>,
                                      <<TaskStart(TaskOfId(o)), o>>)))

\* Section 4.4 of the specification: the greedy allocation over the
\* dependency-adjusted intervals; busy is the list of the workers' busyUntil.
RECURSIVE AdjustedAllocation(_, _, _)
AdjustedAllocation(order, k, busy) ==
    IF k > Len(order) THEN busy
    ELSE LET e == EarliestStart(order[k])
             f == EarliestFinish(order[k])
             feasible == {w \in 1..Len(busy) : busy[w] <= e}
         IN  IF feasible = {}
             THEN AdjustedAllocation(order, k + 1, Append(busy, f))
             ELSE LET w == CHOOSE x \in feasible : \A y \in feasible :
                                busy[x] < busy[y] \/ (busy[x] = busy[y] /\ x <= y)
                  IN  AdjustedAllocation(order, k + 1, [busy EXCEPT ![w] = f])

AdjustedWorkerCount == Len(AdjustedAllocation(ResolverOrder(<<>>), 1, <<>>))

\* --------------------------------------------------------------- claims
\* C1: in every returned schedule, for every dependency edge 'u depends on v'
\* between scheduled tasks, v's finish time in the schedule is <= u's start
\* time in the schedule. Stated for the schedules of well-formed acyclic
\* input, where a schedule is due.
C1_DependencyOrder ==
    (Returned /\ WellFormedAcyclic) =>
        LET sched == AssignedSeq(result.schedule, 1)
            S == {sched[k] : k \in 1..Len(sched)}
        IN  \A u, v \in S :
                objs[v].id \in TaskDeps(objs[u]) => SchedFinish(v) <= SchedStart(u)

\* C2: at every point of a call (so after every assignment step of each of the
\* three allocators) no worker holds two tasks whose execution intervals
\* overlap: neither their windows [start, end) nor, where the allocator records
\* it, their [actual_start, actual_start + duration).
C2_NoDoubleBooking ==
    \A w \in 1..Len(worker_assignments) :
        LET l == worker_assignments[w][2]
        IN  \A a, b \in 1..Len(l) :
                a # b =>
                    /\ ~Overlap(TaskStart(objs[l[a]]), TaskEnd(objs[l[a]]),
                                TaskStart(objs[l[b]]), TaskEnd(objs[l[b]]))
                    /\ ~Overlap(SchedStart(l[a]), SchedFinish(l[a]),
                                SchedStart(l[b]), SchedFinish(l[b]))

\* C2 witness: a call has returned a schedule in which a worker was reused and
\* holds two tasks.
C2_Witness ==
    /\ Returned
    /\ result.min_workers >= 1
    /\ \E w \in 1..Len(result.schedule) : Len(result.schedule[w][2]) >= 2

\* C3: the reported worker count is the one of the dependency-adjusted
\* timeline: a worker is reused exactly when its busyUntil is <= the task's
\* earliest start (the later of its window start and its prerequisites'
\* finish), as in the allocation over the adjusted intervals.
C3_AdjustedTimeline ==
    (Returned /\ WellFormedAcyclic) => result.min_workers = AdjustedWorkerCount

\* C4: a scheduling request whose dependency relation has a cycle (a task
\* depending on itself included) ends in a failure; no schedule is returned.
C4_CycleFails ==
    (pc = "done" /\ Cyclic) => result.kind = "failure"

\* C5: a call on well-formed acyclic input, on a fresh scheduler, returns a
\* schedule, and every input task is in exactly one worker's list exactly once.
C5_Partition ==
    (pc = "done" /\ fresh /\ WellFormedAcyclic) =>
        /\ result.kind = "schedule"
        /\ LET sched == AssignedSeq(result.schedule, 1)
           IN  /\ Len(sched) = Len(tasks)
               /\ \A r \in Args : \E k \in 1..Len(sched) : sched[k] = r

\* A call that has not returned can take its next step: the calls of the model
\* end only by returning.
NeverStuck == pc # "done" => ENABLED Next

\* C5 witness: a call on well-formed acyclic input with a dependency has
\* returned, all of its tasks assigned.
C5_Witness ==
    /\ Returned /\ WellFormedAcyclic /\ fresh
    /\ \E r \in Args : TaskDeps(given[r]) # {}
    /\ Len(AssignedSeq(result.schedule, 1)) = Len(tasks)
    /\ Len(tasks) >= 2

\* C6: on well-formed acyclic input the returned min_workers is the minimum
\* number of workers for the declared windows: the largest number of windows
\* that contain a common instant.
C6_MinimumWorkers ==
    (Returned /\ WellFormedAcyclic) => result.min_workers = MaxOverlap(RawWindows)

\* C7: on well-formed acyclic input the returned min_workers is never below the
\* largest number of dependency-adjusted intervals
\* [earliestStart, earliestFinish) that contain a common instant.
C7_LowerBound ==
    (Returned /\ WellFormedAcyclic) => result.min_workers >= MaxOverlap(AdjustedWindows)

\* C8: a scheduling run never modifies the caller-owned input tasks: when the
\* call has returned, every task has the fields and values it was built with.
C8_InputUntouched ==
    pc = "done" => objs = given

\* The worker count and the assignments of a result, as the caller sees
\* them; a failure has none.
Outcome(res) ==
    IF res.kind = "schedule"
    THEN <<res.min_workers, res.schedule>>
    ELSE <<res.kind>>

\* C9: no state persists across invocations: a call on a scheduler that has
\* run before returns what the call with the same task list returned on a
\* fresh scheduler.
C9_NoStateAcrossCalls ==
    \A a, b \in 1..Len(log) :
        (log[a].fresh /\ log[a].args = log[b].args) =>
            Outcome(log[a].result) = Outcome(log[b].result)

\* C10: repeated invocations with the same task objects return an identical
\* min_workers and an identical task-to-worker assignment.
C10_Deterministic ==
    \A a \in 1..Len(log) :
        (a + 1 <= Len(log) /\ log[a].args = log[a + 1].args) =>
            Outcome(log[a].result) = Outcome(log[a + 1].result)

\* C10 witness: a second invocation on the same task objects has returned a
\* schedule that uses a dependency.
C10_Witness ==
    /\ Len(log) >= 2
    /\ log[2].args = log[1].args
    /\ log[2].result.kind = "schedule"
    /\ log[2].result.min_workers >= 2
    /\ \E r \in Args : TaskDeps(given[r]) # {}

\* C11: an input in which two tasks share an id never yields a schedule: the
\* call ends in a failure, whether or not any task has dependencies. Stated
\* for inputs with no other defect.
C11_DuplicateIdRejected ==
    (pc = "done" /\ DuplicateIds /\ ~UnknownDependency /\ ~EmptyWindow)
        => result.kind = "failure"

\* C12: an input in which a task lists a dependency id that no task has never
\* yields a schedule: the call ends in a failure, a single-task input
\* included. Stated for inputs with no other defect.
C12_UnknownDependencyRejected ==
    (pc = "done" /\ UnknownDependency /\ ~DuplicateIds /\ ~EmptyWindow)
        => result.kind = "failure"

\* C13: an input with a task whose end is <= its start never yields a
\* schedule: the call ends in a failure. Stated for inputs with no other
\* defect.
C13_EmptyWindowRejected ==
    (pc = "done" /\ EmptyWindow /\ ~DuplicateIds /\ ~UnknownDependency /\ ~Cyclic)
        => result.kind = "failure"

\* C14: when solve_task_scheduling_problem fails because of a dependency
\* cycle, the failure value it delivers lists the unresolved task ids (the
\* ids the topological order did not emit).
C14_CycleFailureListsIds ==
    (impl = "pro" /\ pc = "done" /\ WellFormed /\ Cyclic /\ result.kind = "failure")
        => /\ "unresolved" \in DOMAIN result
           /\ result.unresolved =
                 ArgIds \ {sorted_tasks[k] : k \in 1..Len(sorted_tasks)}

\* C15: solve_task_scheduling_problem called with an empty list never returns
\* a schedule, and ends in the failure value None.
C15_EmptyInputFails ==
    (impl = "pro" /\ tasks_type = "list" /\ tasks = <<>>)
        => /\ result.kind # "schedule"
           /\ pc = "done" => result.kind = "failure"

\* The call on an empty list has returned.
C15_Witness ==
    impl = "pro" /\ tasks_type = "list" /\ tasks = <<>> /\ pc = "done"

\* The input is one well-formed task without dependencies.
SingleTaskInput ==
    WellFormed /\ Len(tasks) = 1 /\ TaskDeps(given[tasks[1]]) = {}

\* C16: for an input of exactly one well-formed task without dependencies the
\* result has min_workers = 1, the task is the one task of worker 1, and its
\* start in the schedule is its window start.
C16_SingleTask ==
    (Returned /\ SingleTaskInput)
        => /\ result.min_workers = 1
           /\ result.schedule = << <<1, <<tasks[1]>> >> >>
           /\ SchedStart(tasks[1]) = TaskStart(given[tasks[1]])

\* The input is two or more well-formed tasks, none with a dependency.
IndependentInput ==
    /\ WellFormed /\ Len(tasks) >= 2
    /\ \A r \in Args : TaskDeps(given[r]) = {}

\* C17: for every input of two or more well-formed tasks none of which has a
\* dependency, min_workers is the largest number of windows [start, end) that
\* contain one common instant.
C17_IndependentOverlap ==
    (Returned /\ IndependentInput) => result.min_workers = MaxOverlap(RawWindows)

\* A call on independent tasks, two of them overlapping, has returned.
C17_Witness ==
    /\ Returned /\ IndependentInput
    /\ MaxOverlap(RawWindows) >= 2

\* C18: solve_task_scheduling_problem never lets an exception reach its
\* caller: whatever the argument, it returns a result with 'min_workers' and
\* 'schedule' or the value None, and it returns None for every argument that
\* is not a list.
C18_NoExceptionEscapes ==
    /\ result.kind \in {"none", "schedule", "failure"}
    /\ result.kind = "schedule"
          => {"min_workers", "schedule"} \subseteq DOMAIN result
    /\ (pc = "done" /\ tasks_type # "list") => result.kind = "failure"
    /\ pc = "done" => result.kind # "none"

\* A call with an argument that is not a list has returned.
C18_Witness == pc = "done" /\ tasks_type = "str" /\ result.kind = "failure"

\* C19: every successful result of solve_task_scheduling_problem carries the
\* task order that was used ('task_order'), on every success path.
C19_TaskOrderInResult ==
    (impl = "pro" /\ Returned) => "task_order" \in DOMAIN result

\* The topological sort of the call has finished: sorted_tasks is the order
\* the allocation uses.
ResolverDone ==
    \/ impl = "adv" /\ pc \in {"alloc", "done"}
    \/ impl = "pro" /\ pc = "pro_alloc"
    \/ impl = "pro" /\ Returned /\ "task_order" \in DOMAIN result

\* C20: for every well-formed acyclic input, the order the topological sort
\* produces is a permutation of all task ids in which every task comes after
\* each of its dependencies.
C20_TopologicalOrder ==
    (ResolverDone /\ WellFormedAcyclic)
        => /\ Len(sorted_tasks) = Len(tasks)
           /\ {sorted_tasks[k] : k \in 1..Len(sorted_tasks)} = ArgIds
           /\ \A a \in 1..Len(sorted_tasks) :
                 \A d \in TaskDeps(TaskOfId(sorted_tasks[a])) :
                    \E b \in 1..(a - 1) : sorted_tasks[b] = d

\* The sort has finished on an input in which the task listed first depends
\* on the task listed second.
C20_Witness ==
    /\ ResolverDone /\ WellFormedAcyclic /\ Len(tasks) >= 2
    /\ given[tasks[2]].id \in TaskDeps(given[tasks[1]])

\* The topological sort of the call has started (and may have finished).
TopoStarted ==
    \/ impl = "adv" /\ pc \in {"topo", "alloc", "done"}
    \/ impl = "pro" /\ pc \in {"pro_topo", "pro_alloc"}
    \/ impl = "pro" /\ pc = "done" /\ task_map # <<>>

\* The input tasks not in the list emitted whose dependencies all are.
ReadySet(emitted) ==
    LET done == {emitted[k] : k \in 1..Len(emitted)}
    IN  {id \in ArgIds \ done : TaskDeps(TaskOfId(id)) \subseteq done}

\* C21: at every step of the topological sort the task emitted is the one
\* with the smallest (start, id) among the tasks not yet emitted whose
\* dependencies have all been emitted, and the ready queue holds exactly those
\* tasks: a task is eligible as soon as its last dependency is emitted.
C21_SmallestReadyFirst ==
    (TopoStarted /\ WellFormed)
        => /\ \A k \in 1..Len(sorted_tasks) :
                 LET ready == ReadySet(SubSeq(sorted_tasks, 1, k - 1))
                     id == sorted_tasks[k]
                 IN  /\ id \in ready
                     /\ \A o \in ready \ {id} :
                           \/ TaskStart(TaskOfId(id)) < TaskStart(TaskOfId(o))
                           \/ /\ TaskStart(TaskOfId(id)) = TaskStart(TaskOfId(o))
                              /\ id < o
           /\ {ready_queue[j][2] : j \in 1..Len(ready_queue)} = ReadySet(sorted_tasks)

\* The sort has emitted task 2 before task 1, both ready from the beginning,
\* and task 1 waits in the queue.
C21_Witness ==
    /\ TopoStarted /\ WellFormed
    /\ sorted_tasks = <<2>>
    /\ 1 \in ReadySet(<<>>)
    /\ Len(ready_queue) = 1

\* C22: every task assigned by _allocate_resources_optimally has an
\* actual_start that is finite, >= its window start and equal to its
\* dependency-adjusted earliest start, on a reused and on a new worker alike.
C22_ActualStartFinite ==
    (impl = "adv" /\ WellFormedAcyclic)
        => \A r \in Args :
              objs[r].assigned_worker # None
                 => /\ objs[r].actual_start # Inf
                    /\ objs[r].actual_start >= objs[r].start_time
                    /\ objs[r].actual_start = EarliestStart(objs[r].id)

\* The workers allocated so far in the running allocator, and the time until
\* which each is busy.
AllocatedWorkers ==
    IF pc = "swd" THEN 1..Len(workers)
    ELSE {worker_availability[j][2] : j \in 1..Len(worker_availability)}

BusyUntil(w) ==
    IF pc = "swd" THEN workers[w]
    ELSE worker_availability[CHOOSE j \in 1..Len(worker_availability) :
                                worker_availability[j][2] = w][1]

\* C23: in every assignment step of the three allocators, when some allocated
\* worker is busy until a time <= the task's start, the task goes to a worker
\* with the smallest such time, and it goes to a new worker only when no
\* allocated worker is feasible.
C23_SmallestFeasibleWorker ==
    [][(pc \in {"alloc", "pro_alloc", "swd"} /\ i' = i + 1)
         => LET w == CHOOSE x \in 1..(Len(worker_assignments) + 1) :
                        DictGetDefault(worker_assignments', x, <<>>)
                           # DictGetDefault(worker_assignments, x, <<>>)
                assigned == DictGet(worker_assignments', w)
                start == TaskStart(objs[assigned[Len(assigned)]])
                feasible == {x \in AllocatedWorkers : BusyUntil(x) <= start}
            IN  IF feasible = {} THEN w \notin AllocatedWorkers
                ELSE /\ w \in feasible
                     /\ \A x \in feasible : BusyUntil(w) <= BusyUntil(x)]_vars

\* C24: for every acyclic task set, in whatever order the tasks are supplied,
\* _calculate_critical_path gives each task earliest_start = max(window start,
\* largest earliest_finish of its dependencies) and earliest_finish =
\* earliest_start + duration.
C24_CriticalPath ==
    (impl = "adv" /\ pc \in {"alloc", "done"} /\ WellFormedAcyclic)
        => /\ Len(critical_info) = Len(tasks)
           /\ \A k \in 1..Len(critical_info) :
                 LET id == critical_info[k][1]
                     info == critical_info[k][2]
                 IN  /\ info.earliest_start = EarliestStart(id)
                     /\ info.earliest_finish =
                           info.earliest_start
                              + (TaskEnd(TaskOfId(id)) - TaskStart(TaskOfId(id)))

\* The keys of an assignment map are 1..n, each once, and no worker has an
\* empty task list.
SequentialIds(assignments, n) ==
    /\ Len(assignments) = n
    /\ {assignments[k][1] : k \in 1..Len(assignments)} = 1..n
    /\ \A k \in 1..Len(assignments) : assignments[k][2] # <<>>

\* C25: worker ids are sequential from 1: at every point of allocation the
\* workers that have tasks are exactly 1..worker count, and in every returned
\* result they are exactly 1..min_workers, none with an empty task list.
C25_SequentialWorkerIds ==
    /\ pc \in {"alloc", "pro_alloc", "swd"}
          => /\ SequentialIds(worker_assignments, worker_count)
             /\ pc = "swd" => Len(workers) = worker_count
    /\ Returned => SequentialIds(result.schedule, result.min_workers)

\* A call has returned one worker that was used for two tasks.
C25_Witness ==
    /\ Returned /\ result.min_workers = 1
    /\ Len(result.schedule[1][2]) = 2

\* C26: after every assignment step each allocated worker has exactly one
\* availability entry, it is busy until the finish of the task assigned to it
\* last, which is >= the finish of every task assigned to it before, and in
\* the heap-based allocators the entry at index 0 of worker_availability has
\* the smallest time of all.
C26_AvailabilityEntries ==
    (pc \in {"alloc", "pro_alloc", "swd"} /\ WellFormed)
        => /\ pc # "swd"
                 => /\ Len(worker_availability) = worker_count
                    /\ AllocatedWorkers = 1..worker_count
                    /\ \A j \in 1..Len(worker_availability) :
                          worker_availability[1][1] <= worker_availability[j][1]
           /\ \A k \in 1..Len(worker_assignments) :
                 LET w == worker_assignments[k][1]
                     assigned == worker_assignments[k][2]
                 IN  /\ BusyUntil(w) = TaskEnd(objs[assigned[Len(assigned)]])
                     /\ \A a \in 1..Len(assigned) :
                           TaskEnd(objs[assigned[a]]) <= BusyUntil(w)

\* Two workers are allocated and the second one, free earlier, is at index 0
\* of the heap.
C26_Witness ==
    /\ pc \in {"alloc", "pro_alloc"} /\ WellFormed
    /\ Len(worker_availability) = 2
    /\ worker_availability[1][2] = 2

\* What the topological sort has emitted followed by what waits in its ready
\* queue.
EmittedAndQueued ==
    sorted_tasks \o [j \in 1..Len(ready_queue) |-> ready_queue[j][2]]

\* No task is pushed to the ready queue twice: emitted and queued ids are all
\* different.
PushedAtMostOnce ==
    \A a, b \in 1..Len(EmittedAndQueued) :
        a # b => EmittedAndQueued[a] # EmittedAndQueued[b]

\* C27: the topological sort terminates on every input, cyclic inputs, ids of
\* no task and repeated entries in a dependency list included: no task id is
\* pushed to the ready queue more than once, so none is emitted more than
\* once and there are at most as many pops as distinct task ids, and the call
\* comes to its end.
C27_TopoTerminates ==
    /\ [](/\ PushedAtMostOnce
          /\ Len(sorted_tasks) <= Cardinality({objs[tasks[k]].id : k \in 1..Len(tasks)}))
    /\ <>(pc = "done")

\* The call has ended after emitting a task whose dependency list names one
\* task twice.
C27_Witness ==
    /\ pc = "done"
    /\ \E r \in Args :
          /\ Len(given[r].dependencies) = 2
          /\ given[r].dependencies[1] = given[r].dependencies[2]
          /\ \E k \in 1..Len(sorted_tasks) : sorted_tasks[k] = given[r].id

\* C28: when solve_task_scheduling_problem ends in failure, nothing has been
\* allocated: the task dicts are as the caller built them (no 'assigned_worker'
\* key) and there is no worker, no availability entry and no assignment.
C28_FailureBeforeAllocation ==
    (impl = "pro" /\ pc = "done" /\ result.kind = "failure") =>
        /\ objs = given
        /\ worker_count = 0
        /\ workers = <<>>
        /\ worker_availability = <<>>
        /\ worker_assignments = <<>>

\* The call has failed at the circular-dependency check after the resolver
\* emitted a task.
C28_Witness ==
    /\ impl = "pro" /\ pc = "done" /\ result.kind = "failure"
    /\ task_map # <<>>
    /\ Len(sorted_tasks) = 1

\* Every task starts no earlier than each of its dependencies ends.
StartsAfterDependencies ==
    \A r \in Args : \A d \in TaskDeps(given[r]) :
        TaskStart(given[r]) >= TaskEnd(TaskOfId(d))

\* The topological sort of find_minimum_workers or schedule_tasks_optimally
\* has run: sorted_tasks holds the ids it emitted.
ResolverRan ==
    \/ impl = "adv" /\ pc \in {"topo", "alloc", "done"}
    \/ impl = "pro" /\ pc \in {"pro_topo", "pro_alloc"}
    \/ impl = "pro" /\ pc = "done" /\ task_map # <<>>

\* C29: for well-formed acyclic input in which every task starts no earlier
\* than each of its dependencies ends, the resolver emits the tasks in
\* non-decreasing order of start, and find_minimum_workers and
\* schedule_tasks_optimally return as min_workers the largest number of task
\* windows that share an instant.
C29_WindowsRespectDependencies ==
    (WellFormedAcyclic /\ StartsAfterDependencies /\ ResolverRan) =>
        /\ \A j, k \in 1..Len(sorted_tasks) :
              j < k => TaskStart(TaskOfId(sorted_tasks[j]))
                          <= TaskStart(TaskOfId(sorted_tasks[k]))
        /\ Returned => result.min_workers = MaxOverlap(RawWindows)

\* A schedule was returned for two tasks, the second depending on the first
\* and starting when it ends: one worker.
C29_Witness ==
    /\ WellFormedAcyclic /\ StartsAfterDependencies /\ ResolverRan /\ Returned
    /\ Len(sorted_tasks) = 2
    /\ \E r \in Args : given[r].dependencies # <<>>
    /\ result.min_workers = 1

\* C30: for two or more well-formed tasks with unique ids and no dependency,
\* schedule_without_dependencies (entered through handle_edge_cases) and
\* schedule_tasks_optimally (called on the same list) return the same
\* min_workers.
C30_DispatchSameWorkers ==
    (impl = "pro" /\ pc = "done" /\ calls = 2 /\ IndependentInput) =>
        /\ Len(log) = 2
        /\ log[1].result.kind = "schedule" /\ log[2].result.kind = "schedule"
        /\ log[1].result.min_workers = log[2].result.min_workers

\* Both paths have answered for two independent tasks, the first through
\* schedule_without_dependencies, the second through schedule_tasks_optimally,
\* which reused its worker.
C30_Witness ==
    /\ impl = "pro" /\ pc = "done" /\ calls = 2 /\ IndependentInput
    /\ "task_order" \notin DOMAIN log[1].result
    /\ "task_order" \in DOMAIN log[2].result
    /\ log[2].result.min_workers = 1

====
